---- MODULE Spec2Model ----
(***************************************************************************)
(* Model of the heavymetal analysis tools:                                 *)
(*   tools/pk3_inspect.py  inspect_pk3, summary                            *)
(*   tools/pe_analyze.py   analyze_pe, print_resources, main               *)
(* and of the PE parsing components the specification describes            *)
(* (ByteCursor, SectionTable, ImportTableParser, ExportTableParser), whose *)
(* work the scripts hand to the pefile library.                            *)
(*                                                                         *)
(* Text is modelled as sequences of one-character strings, so that         *)
(* splitting, lower-casing and extension handling are computed and not     *)
(* assumed.                                                                *)
(***************************************************************************)
EXTENDS Integers, Sequences, FiniteSets, TLC

VARIABLES
    \* ---- pk3_inspect.py: inspect_pk3 (one archive) ----
    infos,        \* zf.infolist(): sequence of [filename, file_size]
    info_i,       \* index of the next entry the categorising loop handles
    ext_stats,    \* defaultdict: extension  -> [count, size]
    dir_stats,    \* defaultdict: top-level directory -> [count, size]
    pk3_pc,       \* "loop" | "print" | "done"
    pk3_out,      \* printed tables: sequence of [table, key, count, size]
    \* ---- pk3_inspect.py: summary (a directory of archives) ----
    listing,      \* os.listdir(directory): file name -> kind of file
    pk3_files,    \* the sorted list of .pk3 paths
    sum_i,        \* index of the next path the loop inspects
    sum_out,      \* what was printed per inspected file: [file, line]
    sum_pc,       \* "list" | "loop" | "done" | "raised"
    \* ---- pe_analyze.py: print_resources (one resource tree) ----
    rsrc,         \* directory index -> the entries pefile handed over, as
                  \* far as the traversal has read them
    closed,       \* directories whose entry list is read to its end
    dropped,      \* directory index -> self-referential entries of the
                  \* image that the library kept back
    libcut,       \* whether the library keeps self-referential entries back
    stack,        \* the active print_resources calls: [dir, pos, indent]
    res_out,      \* printed lines: [indent, kind, text, size, key]
    res_pc,       \* "walk" | "done" | "raised"
    \* ---- pe_analyze.py: main --all, analyze_pe ----
    batch,        \* the files main hands to analyze_pe, in its order
    file_i,       \* index of the file being analysed
    pe_pc,        \* the place of analyze_pe: "load" | "headers" | "imports"
                  \* | "exports" | "resources" | "version" | "close"
    report,       \* file index -> what analyze_pe printed for it
    run,          \* "running" | "done" | "raised"
    \* ---- ByteCursor (specification section 4.1) ----
    image,        \* the file contents: a sequence of bytes
    image0,       \* the file contents as loaded
    cur_last,     \* the last accessor call and what it returned
    \* ---- SectionTable (specification section 4.3) ----
    sections,     \* the section records, in file order
    sec_image_len,\* the length of the image the records were read from
    rva_last,     \* the last rva_to_offset call and what it returned
    \* ---- ImportTableParser (section 4.4) and lines 92-109 ----
    thunks,       \* one descriptor's thunk array, up to the end of the image
    thunk_i,      \* index of the next thunk the walk reads
    symbols,      \* entry.imports: the ImportedSymbols found so far
    imp_out,      \* what lines 100-106 printed for the module
    imp_pc,       \* "walk" | "walked" | "printed"
    \* ---- ExportTableParser (section 4.5) and lines 111-120 ----
    exp_dir,      \* the export directory: OrdinalBase and its three arrays
    exp_symbols,  \* DIRECTORY_ENTRY_EXPORT.symbols
    exp_i,        \* index of the next symbol line 116 takes
    exp_out,      \* what line 118 printed: [ordinal, address, name]
    exp_pc        \* "parse" | "print" | "done"

pk3_vars == <<infos, info_i, ext_stats, dir_stats, pk3_pc, pk3_out>>
sum_vars == <<listing, pk3_files, sum_i, sum_out, sum_pc>>
res_vars == <<rsrc, closed, dropped, libcut, stack, res_out, res_pc>>
pe_vars == <<batch, file_i, pe_pc, report, run>>
cur_vars == <<image, image0, cur_last>>
sec_vars == <<sections, sec_image_len, rva_last>>
imp_vars == <<thunks, thunk_i, symbols, imp_out, imp_pc>>
exp_vars == <<exp_dir, exp_symbols, exp_i, exp_out, exp_pc>>
parser_vars == <<cur_vars, sec_vars, imp_vars, exp_vars>>

vars == <<pk3_vars, sum_vars, res_vars, pe_vars, parser_vars>>

\* ------------------------------------------------------------------------
\* Generic helpers
\* ------------------------------------------------------------------------
RECURSIVE SumOver(_, _)
\* Sum of f[k] over the keys k of the set S.
SumOver(f, S) ==
    IF S = {} THEN 0
    ELSE LET k == CHOOSE x \in S : TRUE IN f[k] + SumOver(f, S \ {k})

SeqsUpTo(S, n) == UNION {[1..k -> S] : k \in 0..n}

\* ------------------------------------------------------------------------
\* pk3_inspect.py
\* ------------------------------------------------------------------------
\* Bound on the number of entries of one archive listing.
MaxInfos == 3
\* Bound on an entry's file_size.
MaxFileSize == 1

\* str.rfind: the last position of character c in p (1-based), 0 when absent.
RFind(p, c) ==
    LET hits == {k \in 1..Len(p) : p[k] = c}
    IN IF hits = {} THEN 0 ELSE CHOOSE k \in hits : \A j \in hits : j <= k

\* str.find: the first position of character c in p (1-based), 0 when absent.
Find(p, c) ==
    LET hits == {k \in 1..Len(p) : p[k] = c}
    IN IF hits = {} THEN 0 ELSE CHOOSE k \in hits : \A j \in hits : k <= j

\* str.lower on one character of the modelled alphabet.
LowerChar(c) ==
    CASE c = "A" -> "a"
      [] c = "B" -> "b"
      [] c = "T" -> "t"
      [] c = "K" -> "k"
      [] c = "P" -> "p"
      [] OTHER -> c

Lower(s) == [k \in 1..Len(s) |-> LowerChar(s[k])]

\* os.path.splitext(name)[1]: the text from the last dot of the last path
\* component, provided a character other than a dot precedes it there.
SplitExt(p) ==
    LET sepIndex == RFind(p, "/")
        dotIndex == RFind(p, ".")
    IN IF dotIndex > sepIndex
          /\ \E k \in (sepIndex + 1)..(dotIndex - 1) : p[k] # "."
       THEN SubSeq(p, dotIndex, Len(p))
       ELSE <<>>

NoneKey == <<"(none)">>
RootKey == <<"(root)">>

\* lines 51-53: ext = splitext(name)[1].lower(); '(none)' when empty.
ExtKey(name) ==
    LET ext == Lower(SplitExt(name))
    IN IF ext = <<>> THEN NoneKey ELSE ext

\* lines 59-63: parts = name.split('/'); parts[0] when there are several
\* parts, '(root)' otherwise.
TopDir(name) ==
    LET slash == Find(name, "/")
    IN IF slash > 0 THEN SubSeq(name, 1, slash - 1) ELSE RootKey

\* ZipInfo.is_dir(): the name ends with '/'.
IsDirEntry(info) ==
    Len(info.filename) > 0 /\ info.filename[Len(info.filename)] = "/"

\* A mutant of AddTo: the bucket's size is overwritten instead of added to.
AddToOverwrite(stats, k, sz) ==
    IF k \in DOMAIN stats
    THEN [stats EXCEPT ![k] = [count |-> @.count + 1, size |-> sz]]
    ELSE (k :> [count |-> 1, size |-> sz]) @@ stats

\* lines 55-56 and 64-65 on a defaultdict: create the bucket at 0/0 on first
\* use, then count += 1 and size += file_size.
AddTo(stats, k, sz) ==
    IF k \in DOMAIN stats
    THEN [stats EXCEPT ![k] = [count |-> @.count + 1, size |-> @.size + sz]]
    ELSE (k :> [count |-> 1, size |-> sz]) @@ stats

\* The archive member names the model draws from.
FileNames ==
    { <<"a", ".", "T">>,               \* a.T        upper-case extension
      <<".", "t">>,                    \* .t         leading dot: no extension
      <<"d", "/">>,                    \* d/         a directory entry
      <<"d", "/", "a", ".", "t">>,     \* d/a.t
      <<"d", ".", "t", "/", "b">>,     \* d.t/b      dot in the directory only
      <<"/", "a">>,                    \* /a         empty first component
      <<"B", "/", "d", "/", "a", ".">> \* B/d/a.     extension "."
    }

InfoSet == [filename : FileNames, file_size : 0..MaxFileSize]

EmptyStats == [k \in {} |-> [count |-> 0, size |-> 0]]

IdlePk3 ==
    /\ infos = <<>>
    /\ info_i = 0
    /\ ext_stats = EmptyStats
    /\ dir_stats = EmptyStats
    /\ pk3_pc = "idle"
    /\ pk3_out = <<>>

IdleSummary ==
    /\ listing = EmptyStats
    /\ pk3_files = <<>>
    /\ sum_i = 0
    /\ sum_out = <<>>
    /\ sum_pc = "idle"

IdleRes ==
    /\ rsrc = <<>>
    /\ closed = {}
    /\ dropped = <<>>
    /\ libcut = FALSE
    /\ stack = <<>>
    /\ res_out = <<>>
    /\ res_pc = "idle"

IdlePe ==
    /\ batch = <<>>
    /\ file_i = 0
    /\ pe_pc = "idle"
    /\ report = <<>>
    /\ run = "idle"

NoCall == [op |-> "none"]

IdleCursor ==
    /\ image = <<>>
    /\ image0 = <<>>
    /\ cur_last = NoCall

IdleSections ==
    /\ sections = <<>>
    /\ sec_image_len = 0
    /\ rva_last = NoCall

IdleImports ==
    /\ thunks = <<>>
    /\ thunk_i = 0
    /\ symbols = <<>>
    /\ imp_out = <<>>
    /\ imp_pc = "idle"

IdleExports ==
    /\ exp_dir = NoCall
    /\ exp_symbols = <<>>
    /\ exp_i = 0
    /\ exp_out = <<>>
    /\ exp_pc = "idle"

IdleParser == IdleCursor /\ IdleSections /\ IdleImports /\ IdleExports

\* lines 30-45: the archive opened, its listing read, both tables empty.
\* (Lines 32-41 and 81-101 print totals and file lists; they read infos
\* and write neither table.)
InitPk3 ==
    /\ infos \in SeqsUpTo(InfoSet, MaxInfos)
    /\ info_i = 1
    /\ ext_stats = EmptyStats
    /\ dir_stats = EmptyStats
    /\ pk3_pc = "loop"
    /\ pk3_out = <<>>
    /\ IdleSummary
    /\ IdleRes
    /\ IdlePe
    /\ IdleParser

\* lines 47-65: one iteration of the categorising loop.
Categorize ==
    /\ pk3_pc = "loop"
    /\ info_i <= Len(infos)
    /\ LET info == infos[info_i]
       IN IF IsDirEntry(info)
          THEN UNCHANGED <<ext_stats, dir_stats>>
          ELSE /\ ext_stats' = AddTo(ext_stats, ExtKey(info.filename), info.file_size)
               /\ dir_stats' = AddTo(dir_stats, TopDir(info.filename), info.file_size)
    /\ info_i' = info_i + 1
    /\ UNCHANGED <<infos, pk3_pc, pk3_out, sum_vars, res_vars, pe_vars, parser_vars>>

\* line 47: the loop is exhausted.
EndLoop ==
    /\ pk3_pc = "loop"
    /\ info_i > Len(infos)
    /\ pk3_pc' = "print"
    /\ UNCHANGED <<infos, info_i, ext_stats, dir_stats, pk3_out, sum_vars, res_vars, pe_vars, parser_vars>>

RECURSIVE SortBySizeDesc(_, _)
\* sorted(stats.items(), key=lambda x: -x[1]['size']) as table rows; rows of
\* equal size keep the dictionary's order, which the model leaves to CHOOSE.
SortBySizeDesc(stats, table) ==
    IF DOMAIN stats = {} THEN <<>>
    ELSE LET k == CHOOSE x \in DOMAIN stats :
                     \A y \in DOMAIN stats : stats[y].size <= stats[x].size
             rest == [y \in DOMAIN stats \ {k} |-> stats[y]]
         IN <<[table |-> table, key |-> k,
               count |-> stats[k].count, size |-> stats[k].size]>>
            \o SortBySizeDesc(rest, table)

\* lines 67-79: print the two tables.
PrintTables ==
    /\ pk3_pc = "print"
    /\ pk3_out' = SortBySizeDesc(ext_stats, "ext") \o SortBySizeDesc(dir_stats, "dir")
    /\ pk3_pc' = "done"
    /\ UNCHANGED <<infos, info_i, ext_stats, dir_stats, sum_vars, res_vars, pe_vars, parser_vars>>

NextPk3 == Categorize \/ EndLoop \/ PrintTables

SpecPk3 == InitPk3 /\ [][NextPk3]_vars

\* ---- C9 ----------------------------------------------------------------
\* What the claim expects for each modelled name: its lower-cased extension
\* or (none), written out by hand.
ExpectedExt(name) ==
    CASE name = <<"a", ".", "T">>                -> <<".", "t">>
      [] name = <<".", "t">>                     -> NoneKey
      [] name = <<"d", "/", "a", ".", "t">>      -> <<".", "t">>
      [] name = <<"d", ".", "t", "/", "b">>      -> NoneKey
      [] name = <<"/", "a">>                     -> NoneKey
      [] name = <<"B", "/", "d", "/", "a", ".">> -> <<".">>
      [] OTHER                                   -> <<"?">>

\* Its first path component, or (root) when the name has no '/'.
ExpectedTop(name) ==
    CASE name = <<"a", ".", "T">>                -> RootKey
      [] name = <<".", "t">>                     -> RootKey
      [] name = <<"d", "/", "a", ".", "t">>      -> <<"d">>
      [] name = <<"d", ".", "t", "/", "b">>      -> <<"d", ".", "t">>
      [] name = <<"/", "a">>                     -> <<>>
      [] name = <<"B", "/", "d", "/", "a", ".">> -> <<"B">>
      [] OTHER                                   -> <<"?">>

\* The non-directory entries the loop has handled so far.
HandledFiles ==
    {j \in 1..(info_i - 1) : infos[j].filename # <<"d", "/">>}

HandledSize == SumOver([j \in HandledFiles |-> infos[j].file_size], HandledFiles)

StatsPartition(stats, expected(_)) ==
    /\ SumOver([k \in DOMAIN stats |-> stats[k].count], DOMAIN stats)
         = Cardinality(HandledFiles)
    /\ SumOver([k \in DOMAIN stats |-> stats[k].size], DOMAIN stats)
         = HandledSize
    /\ DOMAIN stats = {expected(infos[j].filename) : j \in HandledFiles}
    /\ \A k \in DOMAIN stats :
          LET mine == {j \in HandledFiles : expected(infos[j].filename) = k}
          IN /\ stats[k].count = Cardinality(mine)
             /\ stats[k].size = SumOver([j \in mine |-> infos[j].file_size], mine)

\* C9: in inspect_pk3 the per-extension table and the per-top-level-directory
\* table each partition the non-directory entries: the counts of each table
\* sum to the number of non-directory entries, the sizes of each table sum to
\* their total file_size, and every non-directory entry is counted in exactly
\* one extension bucket (its lower-cased extension, or (none)) and exactly one
\* directory bucket (its first path component, or (root)).  Stated for the
\* entries handled so far, hence for all of them once the loop has ended,
\* and for the tables as printed.
C9_TablesPartitionFiles ==
    pk3_pc \in {"loop", "print", "done"} =>
        /\ StatsPartition(ext_stats, ExpectedExt)
        /\ StatsPartition(dir_stats, ExpectedTop)
        /\ pk3_pc = "done" =>
              /\ {<<r.key, r.count, r.size>> :
                     r \in {pk3_out[n] : n \in {m \in 1..Len(pk3_out) : pk3_out[m].table = "ext"}}}
                   = {<<k, ext_stats[k].count, ext_stats[k].size>> : k \in DOMAIN ext_stats}
              /\ {<<r.key, r.count, r.size>> :
                     r \in {pk3_out[n] : n \in {m \in 1..Len(pk3_out) : pk3_out[m].table = "dir"}}}
                   = {<<k, dir_stats[k].count, dir_stats[k].size>> : k \in DOMAIN dir_stats}
              /\ Len(pk3_out) = Cardinality(DOMAIN ext_stats) + Cardinality(DOMAIN dir_stats)

\* C9 witness: a finished run over a directory entry and two files that share
\* an extension bucket but not a directory bucket.
C9_Witness ==
    /\ pk3_pc = "done"
    /\ \E j \in 1..Len(infos) : IsDirEntry(infos[j])
    /\ \E k \in DOMAIN ext_stats : ext_stats[k].count = 2 /\ ext_stats[k].size = 2
    /\ Cardinality(DOMAIN dir_stats) = 2

\* ------------------------------------------------------------------------
\* pk3_inspect.py: summary
\* ------------------------------------------------------------------------
\* ord(c) for the characters of the modelled file names.
Ord(c) ==
    CASE c = "." -> 46
      [] c = "3" -> 51
      [] c = "B" -> 66
      [] c = "K" -> 75
      [] c = "P" -> 80
      [] c = "a" -> 97
      [] c = "b" -> 98
      [] c = "c" -> 99
      [] c = "k" -> 107
      [] c = "p" -> 112
      [] c = "t" -> 116
      [] OTHER -> 0

RECURSIVE StrLess(_, _)
\* Python's str '<': lexicographic by code point.
StrLess(s, t) ==
    IF s = <<>> THEN t # <<>>
    ELSE IF t = <<>> THEN FALSE
    ELSE IF Ord(Head(s)) # Ord(Head(t)) THEN Ord(Head(s)) < Ord(Head(t))
    ELSE StrLess(Tail(s), Tail(t))

RECURSIVE Sorted(_)
\* sorted(list): ascending under StrLess.
Sorted(S) ==
    IF S = {} THEN <<>>
    ELSE LET m == CHOOSE x \in S : \A y \in S \ {x} : StrLess(x, y)
         IN <<m>> \o Sorted(S \ {m})

\* str.endswith
EndsWith(s, suf) ==
    Len(s) >= Len(suf) /\ SubSeq(s, Len(s) - Len(suf) + 1, Len(s)) = suf

DotPk3 == <<".", "p", "k", "3">>

\* line 114: f.lower().endswith('.pk3')
IsPk3Name(f) == EndsWith(Lower(f), DotPk3)

\* The directory entries the model draws from.  os.path.join(directory, f)
\* puts the same prefix before every name, so the paths sort as the names.
DirNames ==
    { <<"a", ".", "p", "k", "3">>,      \* a.pk3
      <<"B", ".", "P", "K", "3">>,      \* B.PK3   sorts before a.pk3
      <<"b", ".", "p", "k", "3">>,      \* b.pk3
      <<"c", ".", "t">>,                \* c.t     not an archive name
      <<"p", "k", "3">> }               \* pk3     no dot: not an archive name

\* What inspecting a file meets:
\*   "zip"     a readable archive
\*   "badzip"  zipfile.ZipFile raises BadZipFile          (line 30)
\*   "ioerr"   zipfile.ZipFile raises another Exception   (line 30: a
\*             directory named x.pk3, a file without read permission)
\*   "gone"    os.path.getsize raises OSError             (line 22: a dangling
\*             symbolic link, a file removed after listdir)
FileKinds == {"zip", "badzip", "ioerr", "gone"}

InitSummary ==
    /\ \E names \in SUBSET DirNames : listing \in [names -> FileKinds]
    /\ pk3_files = <<>>
    /\ sum_i = 0
    /\ sum_out = <<>>
    /\ sum_pc = "list"
    /\ IdlePk3
    /\ IdleRes
    /\ IdlePe
    /\ IdleParser

\* lines 111-121: list, filter, sort; return at once when nothing is found.
ListPk3Files ==
    /\ sum_pc = "list"
    /\ pk3_files' = Sorted({f \in DOMAIN listing : IsPk3Name(f)})
    /\ sum_i' = 1
    /\ sum_pc' = IF pk3_files' = <<>> THEN "done" ELSE "loop"
    /\ UNCHANGED <<listing, sum_out, pk3_vars, res_vars, pe_vars, parser_vars>>

Inspecting(kind) ==
    /\ sum_pc = "loop"
    /\ sum_i <= Len(pk3_files)
    /\ listing[pk3_files[sum_i]] = kind

Printed(line) ==
    /\ sum_out' = Append(sum_out, [file |-> pk3_files[sum_i], line |-> line])
    /\ sum_i' = sum_i + 1
    /\ UNCHANGED <<listing, pk3_files, sum_pc, pk3_vars, res_vars, pe_vars, parser_vars>>

\* lines 19-101 called from line 123: the archive is read and reported.
InspectOk == Inspecting("zip") /\ Printed("report")

\* lines 103-104
InspectBadZip == Inspecting("badzip") /\ Printed("ERROR: Not a valid ZIP/PK3 file")

\* lines 105-106
InspectOtherError == Inspecting("ioerr") /\ Printed("ERROR: e")

\* line 22: os.path.getsize is called before the try block of line 29, so
\* its OSError leaves inspect_pk3 and, through line 123, summary.
InspectGetsizeRaises ==
    /\ Inspecting("gone")
    /\ sum_pc' = "raised"
    /\ UNCHANGED <<listing, pk3_files, sum_i, sum_out, pk3_vars, res_vars, pe_vars, parser_vars>>

\* line 122: the loop is exhausted.
SummaryEnd ==
    /\ sum_pc = "loop"
    /\ sum_i > Len(pk3_files)
    /\ sum_pc' = "done"
    /\ UNCHANGED <<listing, pk3_files, sum_i, sum_out, pk3_vars, res_vars, pe_vars, parser_vars>>

NextSummary ==
    \/ ListPk3Files
    \/ InspectOk
    \/ InspectBadZip
    \/ InspectOtherError
    \/ InspectGetsizeRaises
    \/ SummaryEnd

SpecSummary == InitSummary /\ [][NextSummary]_vars

\* ---- C10 ---------------------------------------------------------------
\* C10: summary(directory) inspects every .pk3 file of the directory exactly
\* once, in sorted path order, and a failure while inspecting one file is
\* reported as an ERROR line for that file and never prevents the inspection
\* of the files that follow it.  Stated of the run once it has ended, either
\* by returning or by an exception leaving summary.
C10_EveryFileInspected ==
    sum_pc \in {"done", "raised"} =>
        /\ [n \in 1..Len(sum_out) |-> sum_out[n].file] = pk3_files
        /\ \A n \in 1..Len(sum_out) :
              listing[sum_out[n].file] # "zip" =>
                  sum_out[n].line \in {"ERROR: Not a valid ZIP/PK3 file", "ERROR: e"}

\* ------------------------------------------------------------------------
\* pe_analyze.py: print_resources
\* ------------------------------------------------------------------------
\* Bound on the number of entries of one image's resource tree, over all of
\* its directories.
MaxEntries == 3
\* Python's recursion limit (1000 frames by default), scaled to the model.
RecursionLimit == 3

\* Each entry leads to at most one more directory.
NDirs == MaxEntries + 1

\* The keys of the modelled entries.  pefile gives an entry either a name
\* (and id None) or an id (and name None); named tells which.
EntryKeys ==
    { [named |-> FALSE, name |-> "", id |-> 3],     \* id of a listed type
      [named |-> FALSE, name |-> "", id |-> 16],    \* id of a listed type
      [named |-> FALSE, name |-> "", id |-> 7],     \* id of no listed type
      [named |-> TRUE, name |-> "x", id |-> 0] }    \* a string name

LeafSizes == {16}

\* line 127: the entry's string name, or ID=<id> when it has none.
RawName(key) == IF key.named THEN <<key.name>> ELSE <<"ID=", key.id>>

\* lines 130-131: the dictionary of type labels.
RTypeTable ==
    (1 :> "CURSOR") @@ (2 :> "BITMAP") @@ (3 :> "ICON") @@ (4 :> "MENU")
    @@ (5 :> "DIALOG") @@ (6 :> "STRING") @@ (9 :> "ACCELERATOR")
    @@ (14 :> "GROUP_ICON") @@ (16 :> "VERSION")

\* A mutant of RType: the type label is looked up at every level.
RTypeEveryLevel(key, indent) ==
    IF ~key.named /\ key.id \in DOMAIN RTypeTable
    THEN <<RTypeTable[key.id]>>
    ELSE RawName(key)

\* lines 130-132: {...}.get(entry.id, name) if indent == 0 else name
RType(key, indent) ==
    IF indent = 0
    THEN IF ~key.named /\ key.id \in DOMAIN RTypeTable
         THEN <<RTypeTable[key.id]>>
         ELSE RawName(key)
    ELSE RawName(key)

Top == stack[Len(stack)]

\* The directories allocated so far: the root and every directory an entry
\* leads down to.
EntriesRead == UNION {{rsrc[d][n] : n \in 1..Len(rsrc[d])} : d \in 1..NDirs}

DirEntriesRead == {x \in EntriesRead : x.is_dir}

UsedDirs == {1} \cup {x.target : x \in DirEntriesRead}

\* The entries of the image met so far, handed over or kept back.
ImageEntries == SumOver([d \in 1..NDirs |-> Len(rsrc[d]) + dropped[d]], 1..NDirs)

\* line 138: print_resources(pe.DIRECTORY_ENTRY_RESOURCE.entries)
InitRes ==
    /\ rsrc = [d \in 1..NDirs |-> <<>>]
    /\ closed = {}
    /\ dropped = [d \in 1..NDirs |-> 0]
    /\ libcut \in BOOLEAN
    /\ stack = <<[dir |-> 1, pos |-> 1, indent |-> 0]>>
    /\ res_out = <<>>
    /\ res_pc = "walk"
    /\ IdlePk3
    /\ IdleSummary
    /\ IdlePe
    /\ IdleParser

\* line 126: the loop takes entry e, the next of the directory being
\* listed: one read before, or the next one the image holds.
TakeEntry(e) ==
    /\ res_pc = "walk"
    /\ stack # <<>>
    /\ \/ /\ Top.pos <= Len(rsrc[Top.dir])
          /\ e = rsrc[Top.dir][Top.pos]
          /\ UNCHANGED rsrc
       \/ /\ Top.pos = Len(rsrc[Top.dir]) + 1
          /\ Top.dir \notin closed
          /\ ImageEntries < MaxEntries
          /\ rsrc' = [rsrc EXCEPT ![Top.dir] = Append(@, e)]

LeafEntries ==
    [key : EntryKeys, is_dir : {FALSE}, target : {0}, size : LeafSizes]

\* An entry leading down to a directory not met before.
SubdirEntries ==
    [key : EntryKeys, is_dir : {TRUE},
     target : {Cardinality(UsedDirs) + 1}, size : {0}]

\* An entry whose directory offset is that of the directory holding it or
\* of one of its ancestors.
BackrefEntries ==
    [key : EntryKeys, is_dir : {TRUE},
     target : {stack[n].dir : n \in 1..Len(stack)}, size : {0}]

IsBackref(d, e) == e.is_dir /\ e.target <= d

Line(indent, kind, text, e) ==
    [indent |-> indent, kind |-> kind, text |-> text, size |-> e.size, key |-> e.key]

\* lines 135-137: a leaf entry.
VisitLeaf ==
    \E e \in LeafEntries :
        /\ TakeEntry(e)
        /\ res_out' = Append(res_out, Line(Top.indent, "leaf", RawName(e.key), e))
        /\ stack' = [stack EXCEPT ![Len(stack)].pos = @ + 1]
        /\ UNCHANGED <<closed, dropped, libcut, res_pc, pk3_vars, sum_vars, pe_vars, parser_vars>>

\* lines 129-134: a directory entry: print its label, list its entries.
VisitDirectory ==
    \E e \in SubdirEntries \cup DirEntriesRead
              \cup (IF libcut THEN {} ELSE BackrefEntries) :
        /\ TakeEntry(e)
        /\ Len(stack) < RecursionLimit
        /\ res_out' = Append(res_out, Line(Top.indent, "dir", RType(e.key, Top.indent), e))
        /\ stack' = Append([stack EXCEPT ![Len(stack)].pos = @ + 1],
                           [dir |-> e.target, pos |-> 1, indent |-> Top.indent + 1])
        /\ UNCHANGED <<closed, dropped, libcut, res_pc, pk3_vars, sum_vars, pe_vars, parser_vars>>

\* line 134 when the interpreter's frame limit is reached: RecursionError
\* leaves print_resources and analyze_pe.  Only a chain of calls that comes
\* back to a directory it is listing grows that long; a chain through
\* distinct directories is taken to stay below the limit.
RecursionOverflow ==
    \E e \in DirEntriesRead :
        /\ TakeEntry(e)
        /\ Len(stack) >= RecursionLimit
        /\ res_out' = Append(res_out, Line(Top.indent, "dir", RType(e.key, Top.indent), e))
        /\ res_pc' = "raised"
        /\ UNCHANGED <<closed, dropped, libcut, stack>>
        /\ UNCHANGED <<pk3_vars, sum_vars, pe_vars, parser_vars>>

\* The image holds a self-referential entry here and the library kept it
\* out of entry.directory.entries: the loop of line 126 never sees it.
LibraryDropsBackref ==
    /\ res_pc = "walk"
    /\ stack # <<>>
    /\ libcut
    /\ Top.pos = Len(rsrc[Top.dir]) + 1
    /\ Top.dir \notin closed
    /\ ImageEntries < MaxEntries
    /\ dropped' = [dropped EXCEPT ![Top.dir] = @ + 1]
    /\ UNCHANGED <<rsrc, closed, libcut, stack, res_out, res_pc, pk3_vars, sum_vars, pe_vars, parser_vars>>

\* line 126: the entries are exhausted; the call returns.
ReturnFromDirectory ==
    /\ res_pc = "walk"
    /\ stack # <<>>
    /\ Top.pos = Len(rsrc[Top.dir]) + 1
    /\ closed' = closed \cup {Top.dir}
    /\ stack' = SubSeq(stack, 1, Len(stack) - 1)
    /\ res_pc' = IF Len(stack) = 1 THEN "done" ELSE "walk"
    /\ UNCHANGED <<rsrc, dropped, libcut, res_out, pk3_vars, sum_vars, pe_vars, parser_vars>>

NextRes ==
    \/ VisitLeaf
    \/ VisitDirectory
    \/ RecursionOverflow
    \/ LibraryDropsBackref
    \/ ReturnFromDirectory

SpecRes == InitRes /\ [][NextRes]_vars

\* ---- C8 ----------------------------------------------------------------
\* The label the claim names for an id, written out by hand.
ClaimedLabel(id) ==
    CASE id = 1 -> "CURSOR"
      [] id = 2 -> "BITMAP"
      [] id = 3 -> "ICON"
      [] id = 4 -> "MENU"
      [] id = 5 -> "DIALOG"
      [] id = 6 -> "STRING"
      [] id = 9 -> "ACCELERATOR"
      [] id = 14 -> "GROUP_ICON"
      [] id = 16 -> "VERSION"
      [] OTHER -> "?"

\* C8: a human-readable type label (CURSOR, BITMAP, ICON, MENU, DIALOG,
\* STRING, ACCELERATOR, GROUP_ICON, VERSION for ids 1, 2, 3, 4, 5, 6, 9, 14,
\* 16) is chosen only for directory entries at the top recursion level; a
\* top-level directory entry with any other id or with a string name, every
\* directory entry at a deeper level, and every leaf entry at any level is
\* shown under its raw name (its string name, or ID=<id>).
C8_LabelOnlyAtTopLevel ==
    \A n \in 1..Len(res_out) :
        LET l == res_out[n]
            labelled == /\ l.kind = "dir"
                        /\ l.indent = 0
                        /\ ~l.key.named
                        /\ l.key.id \in {1, 2, 3, 4, 5, 6, 9, 14, 16}
        IN IF labelled
           THEN l.text = <<ClaimedLabel(l.key.id)>>
           ELSE l.text = (IF l.key.named THEN <<l.key.name>> ELSE <<"ID=", l.key.id>>)

\* C8 witness: a finished traversal that printed a top-level directory under
\* its label, a deeper directory with a listed id under its raw name, and a
\* leaf with a listed id under its raw name.
C8_Witness ==
    /\ res_pc = "done"
    /\ \E n \in 1..Len(res_out) :
          /\ res_out[n].kind = "dir" /\ res_out[n].indent = 0
          /\ res_out[n].text = <<"VERSION">>
    /\ \E n \in 1..Len(res_out) :
          /\ res_out[n].kind = "dir" /\ res_out[n].indent = 1
          /\ res_out[n].text = <<"ID=", 3>>
    /\ \E n \in 1..Len(res_out) :
          /\ res_out[n].kind = "leaf" /\ res_out[n].text = <<"ID=", 16>>

\* ---- C2 ----------------------------------------------------------------
\* The self-referential entries of the image met so far.
SelfReferences ==
    SumOver([d \in 1..NDirs |->
                dropped[d] + Cardinality({n \in 1..Len(rsrc[d]) : IsBackref(d, rsrc[d][n])})],
            1..NDirs)

\* C2: resource-tree traversal terminates for every input, including a tree
\* in which a directory entry points back to an ancestor directory's offset:
\* the recursion is bounded, the offending branch is reported as
\* MalformedResourceTree, and the sibling subtrees are still traversed and
\* reported.  Stated as: no RecursionError ends the traversal, and a
\* traversal that has ended printed one MalformedResourceTree line per
\* self-referential entry of the image.
C2_SelfReferenceReported ==
    /\ res_pc # "raised"
    /\ res_pc = "done" =>
          Cardinality({n \in 1..Len(res_out) : res_out[n].kind = "malformed"})
            = SelfReferences

\* ------------------------------------------------------------------------
\* pe_analyze.py: analyze_pe and main --all
\* ------------------------------------------------------------------------
\* Bound on the number of files of one batch.
MaxBatch == 2

\* What pefile makes of a file, as far as analyze_pe reads it:
\*   load       "ok", or "notpe" when pefile.PE(filepath) raises
\*              PEFormatError (a wrong signature, a truncated header)
\*   imports    whether pe has DIRECTORY_ENTRY_IMPORT
\*   exports    whether pe has DIRECTORY_ENTRY_EXPORT
\*   resources  whether pe has DIRECTORY_ENTRY_RESOURCE, and when it has,
\*              whether every named entry's name.string decodes as UTF-8
\*              ("badname": one does not, so line 127 raises)
\*   version    whether pe has FileInfo
PeFiles ==
    [load : {"ok"}, imports : {"absent", "present"}, exports : {"absent", "present"},
     resources : {"absent", "present", "badname"}, version : {"absent", "present"}]
    \cup
    [load : {"notpe"}, imports : {"absent"}, exports : {"absent"},
     resources : {"absent"}, version : {"absent"}]

\* lines 163-166: the *.exe paths in sorted order, then the *.dll paths.
InitPe ==
    /\ batch \in SeqsUpTo(PeFiles, MaxBatch)
    /\ file_i = 1
    /\ pe_pc = "load"
    /\ report = [i \in 1..Len(batch) |-> <<>>]
    /\ run = IF batch = <<>> THEN "done" ELSE "running"
    /\ IdlePk3
    /\ IdleSummary
    /\ IdleRes
    /\ IdleParser

At(place) ==
    /\ run = "running"
    /\ pe_pc = place

File == batch[file_i]

Prints(lines, next) ==
    /\ report' = [report EXCEPT ![file_i] = @ \o lines]
    /\ pe_pc' = next
    /\ UNCHANGED <<batch, file_i, run, pk3_vars, sum_vars, res_vars, parser_vars>>

\* No try statement encloses any line of analyze_pe or the call of line
\* 166: an exception ends main.
Raises ==
    /\ report' = [report EXCEPT ![file_i] = Append(@, "Traceback")]
    /\ run' = "raised"
    /\ UNCHANGED <<batch, file_i, pe_pc, pk3_vars, sum_vars, res_vars, parser_vars>>

\* lines 30-37
LoadOk == At("load") /\ File.load = "ok" /\ Prints(<<"PE Analysis">>, "headers")

\* line 30: pefile.PE raises PEFormatError.
LoadRaises == At("load") /\ File.load = "notpe" /\ Raises

\* lines 39-90
PrintHeaders == At("headers") /\ Prints(<<"PE Header", "Sections">>, "imports")

\* lines 92-109
ImportsLines(f) ==
    IF f.imports = "present" THEN <<"Imports", "Total imports">>
    ELSE <<"Imports", "No imports found">>

PrintImports == At("imports") /\ Prints(ImportsLines(File), "exports")

\* lines 111-120
ExportsLines(f) ==
    IF f.exports = "present" THEN <<"Exports", "exported symbols">>
    ELSE <<"Exports", "No exports found">>

PrintExports == At("exports") /\ Prints(ExportsLines(File), "resources")

\* lines 122-138
ResourcesLines(f) == IF f.resources = "present" THEN <<"Resources">> ELSE <<>>

PrintResources ==
    /\ At("resources")
    /\ File.resources # "badname"
    /\ Prints(ResourcesLines(File), "version")

\* line 127: entry.name.string.decode('utf-8') raises.
ResourcesRaise ==
    /\ At("resources")
    /\ File.resources = "badname"
    /\ report' = [report EXCEPT ![file_i] = @ \o <<"Resources", "Traceback">>]
    /\ run' = "raised"
    /\ UNCHANGED <<batch, file_i, pe_pc, pk3_vars, sum_vars, res_vars, parser_vars>>

\* lines 140-150
VersionLines(f) == IF f.version = "present" THEN <<"Version Info">> ELSE <<>>

PrintVersion == At("version") /\ Prints(VersionLines(File), "close")

\* line 152, and lines 165-166: the next file, or the end of main.
CloseAndNext ==
    /\ At("close")
    /\ IF file_i < Len(batch)
       THEN /\ file_i' = file_i + 1
            /\ pe_pc' = "load"
            /\ run' = run
       ELSE /\ run' = "done"
            /\ UNCHANGED <<file_i, pe_pc>>
    /\ UNCHANGED <<batch, report, pk3_vars, sum_vars, res_vars, parser_vars>>

NextPe ==
    \/ LoadOk
    \/ LoadRaises
    \/ PrintHeaders
    \/ PrintImports
    \/ PrintExports
    \/ PrintResources
    \/ ResourcesRaise
    \/ PrintVersion
    \/ CloseAndNext

SpecPe == InitPe /\ [][NextPe]_vars

\* ---- C1 ----------------------------------------------------------------
\* C1: only header-level errors abort the analysis; any failure while
\* processing the import, export, resource or version directory is recovered
\* locally, the remaining directories are still processed and reported, and
\* the run as a whole does not crash.  Stated as: an exception ends the run
\* only at a file whose headers could not be read, and the report of every
\* other file whose analysis was begun and has ended tells its version
\* information when the file has any.
C1_OnlyHeaderErrorsAbort ==
    /\ run = "raised" => batch[file_i].load = "notpe"
    /\ run \in {"done", "raised"} =>
          \A i \in 1..Len(batch) :
              (i <= file_i /\ batch[i].load = "ok" /\ batch[i].version = "present")
                  => \E n \in 1..Len(report[i]) : report[i][n] = "Version Info"

\* ---- C7 ----------------------------------------------------------------
\* What analyze_pe prints for one file analysed alone.
Alone(f) ==
    IF f.load = "notpe" THEN <<"Traceback">>
    ELSE <<"PE Analysis", "PE Header", "Sections">>
         \o ImportsLines(f) \o ExportsLines(f)
         \o (IF f.resources = "badname" THEN <<"Resources", "Traceback">>
             ELSE ResourcesLines(f) \o VersionLines(f))

\* C7: in batch (--all) mode the report produced for any file of the batch
\* is the same as the report produced by analysing that file alone, whatever
\* the outcome (success or failure) of the analyses of the other files.
\* Stated of the batch once main has ended.
C7_BatchReportsAsAlone ==
    run \in {"done", "raised"} =>
        \A i \in 1..Len(batch) : report[i] = Alone(batch[i])

\* ------------------------------------------------------------------------
\* ByteCursor (specification section 4.1)
\* ------------------------------------------------------------------------
\* Bound on the length of an image.
MaxImage == 8

\* The modelled images are made of NUL and the letter A (65): all letters,
\* all NUL, a NUL at every second place, a NUL at every third place.
PatternByte(p, k) ==
    CASE p = 1 -> 65
      [] p = 2 -> 0
      [] p = 3 -> IF k % 2 = 0 THEN 0 ELSE 65
      [] OTHER -> IF k % 3 = 0 THEN 0 ELSE 65

Images == {[k \in 1..n |-> PatternByte(p, k)] : n \in 0..MaxImage, p \in 1..4}

Reverse(s) == [k \in 1..Len(s) |-> s[Len(s) + 1 - k]]

OutOfBounds == [ok |-> FALSE, value |-> <<>>, touched |-> {}]

\* A mutant of InBounds: the last byte of the image is refused.
InBoundsStrict(o, w) == o + w < Len(image)

\* "fails with OutOfBounds when offset + width > image length"
InBounds(o, w) == o + w <= Len(image)

\* read_u8/u16/u32/u64: w bytes from offset o, little-endian.  The value is
\* given as its base-256 digits, the most significant first.
ReadUInt(o, w) ==
    IF ~InBounds(o, w) THEN OutOfBounds
    ELSE [ok |-> TRUE,
          value |-> Reverse(SubSeq(image, o + 1, o + w)),
          touched |-> (o + 1)..(o + w)]

\* read_fixed_bytes(offset, len)
ReadFixedBytes(o, len) ==
    IF ~InBounds(o, len) THEN OutOfBounds
    ELSE [ok |-> TRUE,
          value |-> SubSeq(image, o + 1, o + len),
          touched |-> (o + 1)..(o + len)]

\* read_null_terminated_ascii(offset, max_len): the bytes before the first
\* NUL among the max_len bytes from offset, all of them when none is NUL.
ReadNullTerminatedAscii(o, max_len) ==
    IF ~InBounds(o, max_len) THEN OutOfBounds
    ELSE LET nuls == {k \in 1..max_len : image[o + k] = 0}
             stop == IF nuls = {} THEN max_len + 1
                     ELSE CHOOSE k \in nuls : \A j \in nuls : k <= j
         IN [ok |-> TRUE,
             value |-> SubSeq(image, o + 1, o + stop - 1),
             touched |-> (o + 1)..(o + (IF stop > max_len THEN max_len ELSE stop))]

\* The image as loaded, once per analysis run.
InitCursor ==
    /\ image \in Images
    /\ image0 = image
    /\ cur_last = NoCall
    /\ IdlePk3
    /\ IdleSummary
    /\ IdleRes
    /\ IdlePe
    /\ IdleSections
    /\ IdleImports
    /\ IdleExports

Offsets == 0..(MaxImage + 1)

Called(op, o, w, r) ==
    /\ cur_last' = [op |-> op, offset |-> o, width |-> w,
                    ok |-> r.ok, value |-> r.value, touched |-> r.touched]
    /\ UNCHANGED <<image, image0, sec_vars, imp_vars, exp_vars, pk3_vars, sum_vars, res_vars, pe_vars>>

read_u8 == \E o \in Offsets : Called("u8", o, 1, ReadUInt(o, 1))

read_u16 == \E o \in Offsets : Called("u16", o, 2, ReadUInt(o, 2))

read_u32 == \E o \in Offsets : Called("u32", o, 4, ReadUInt(o, 4))

read_u64 == \E o \in Offsets : Called("u64", o, 8, ReadUInt(o, 8))

read_fixed_bytes ==
    \E o \in Offsets, len \in 0..MaxImage : Called("bytes", o, len, ReadFixedBytes(o, len))

read_null_terminated_ascii ==
    \E o \in Offsets, max_len \in 0..MaxImage :
        Called("ascii", o, max_len, ReadNullTerminatedAscii(o, max_len))

NextCursor ==
    \/ read_u8
    \/ read_u16
    \/ read_u32
    \/ read_u64
    \/ read_fixed_bytes
    \/ read_null_terminated_ascii

SpecCursor == InitCursor /\ [][NextCursor]_vars

\* ---- C5 ----------------------------------------------------------------
\* What a call must return, read off the image as loaded, byte by byte.
ExpectedValue(op, o, w) ==
    LET b(k) == image0[o + k]
    IN CASE op = "u8"  -> <<b(1)>>
         [] op = "u16" -> <<b(2), b(1)>>
         [] op = "u32" -> <<b(4), b(3), b(2), b(1)>>
         [] op = "u64" -> <<b(8), b(7), b(6), b(5), b(4), b(3), b(2), b(1)>>
         [] op = "bytes" -> [k \in 1..w |-> b(k)]
         [] op = "ascii" ->
              LET n == Cardinality({k \in 1..w : \A j \in 1..k : b(j) # 0})
              IN [k \in 1..n |-> b(k)]

\* C5: every ByteCursor accessor called with offset o and width w succeeds
\* and returns the same value on every call (the value the loaded image
\* holds there) when o + w <= len(image), and fails with OutOfBounds without
\* reading any byte when o + w > len(image); it never reads a byte outside
\* the image and never changes the image.
C5_CursorReadsBoundsChecked ==
    /\ image = image0
    /\ cur_last.op # "none" =>
          IF cur_last.offset + cur_last.width <= Len(image0)
          THEN /\ cur_last.ok
               /\ cur_last.value = ExpectedValue(cur_last.op, cur_last.offset, cur_last.width)
               /\ cur_last.touched \subseteq 1..Len(image0)
          ELSE /\ ~cur_last.ok
               /\ cur_last.touched = {}

\* C5 witness: a u64 read that ends on the last byte of the image and
\* returns a value whose lowest and highest bytes differ.
C5_Witness ==
    /\ cur_last.op = "u64"
    /\ cur_last.offset + 8 = Len(image0)
    /\ cur_last.ok
    /\ cur_last.value[1] = 0
    /\ cur_last.value[8] = 65

\* ------------------------------------------------------------------------
\* SectionTable (specification section 4.3)
\* ------------------------------------------------------------------------
\* Bound on the number of section records.
MaxSections == 2
\* Bound on the RVAs asked for.
MaxRva == 6

\* The section records the model draws from: virtual sizes below and above
\* the raw size, overlapping virtual ranges, raw data inside the image.
SectionSet ==
    [virtual_address : {0, 2}, virtual_size : {1, 3},
     raw_offset : {1, 5}, raw_size : {0, 2}]

Max(a, b) == IF a >= b THEN a ELSE b

\* A mutant of Contains: only the virtual size bounds the range.
ContainsVirtualOnly(sec, rva) ==
    /\ sec.virtual_address <= rva
    /\ rva < sec.virtual_address + sec.virtual_size

\* "virtual_address <= RVA < virtual_address + max(virtual_size, raw_size)"
Contains(sec, rva) ==
    /\ sec.virtual_address <= rva
    /\ rva < sec.virtual_address + Max(sec.virtual_size, sec.raw_size)

UnmappedRva == [ok |-> FALSE, section |-> 0, offset |-> 0]

\* rva_to_offset(rva): a linear scan for the first section whose virtual
\* range contains rva; the RVA's distance from the section's virtual
\* address is its distance from the section's raw offset.
RvaToOffset(rva) ==
    LET hits == {n \in 1..Len(sections) : Contains(sections[n], rva)}
    IN IF hits = {} THEN UnmappedRva
       ELSE LET first == CHOOSE n \in hits : \A m \in hits : n <= m
            IN [ok |-> TRUE, section |-> first,
                offset |-> sections[first].raw_offset
                             + (rva - sections[first].virtual_address)]

InitSections ==
    /\ sections \in SeqsUpTo(SectionSet, MaxSections)
    /\ sec_image_len \in {7, 8}
    /\ rva_last = NoCall
    /\ IdlePk3
    /\ IdleSummary
    /\ IdleRes
    /\ IdlePe
    /\ IdleCursor
    /\ IdleImports
    /\ IdleExports

rva_to_offset ==
    \E rva \in 0..MaxRva :
        /\ rva_last' = [op |-> "rva_to_offset", rva |-> rva, result |-> RvaToOffset(rva)]
        /\ UNCHANGED <<sections, sec_image_len, cur_vars, imp_vars, exp_vars, pk3_vars, sum_vars, res_vars, pe_vars>>

NextSections == rva_to_offset

SpecSections == InitSections /\ [][NextSections]_vars

\* ---- C3 ----------------------------------------------------------------
\* The sections whose range, as the claim words it, holds the RVA.
ClaimedHits(rva) ==
    {n \in 1..Len(sections) :
        /\ sections[n].virtual_address <= rva
        /\ rva < sections[n].virtual_address
                   + (IF sections[n].virtual_size >= sections[n].raw_size
                      THEN sections[n].virtual_size ELSE sections[n].raw_size)}

FirstOf(S) == CHOOSE n \in S : \A m \in S : n <= m

MaxThunks == 3

\* A thunk is zero, an ordinal (high bit set), the RVA of a (hint, name)
\* pair, or an RVA that no section holds.
ThunkSet ==
    { [kind |-> "zero", name |-> <<>>, ordinal |-> 0],
      [kind |-> "ordinal", name |-> <<>>, ordinal |-> 7],
      [kind |-> "name", name |-> <<"a">>, ordinal |-> 0],
      [kind |-> "name", name |-> <<"b">>, ordinal |-> 0],
      [kind |-> "badrva", name |-> <<>>, ordinal |-> 0] }

\* ImportedSymbol: Named(string) or Ordinal(u16).
Symbol(t) == [named |-> t.kind = "name", name |-> t.name, ordinal |-> t.ordinal]

\* One descriptor's thunk array; an array without a zero thunk runs off
\* the image.
InitImports ==
    /\ thunks \in SeqsUpTo(ThunkSet, MaxThunks)
    /\ thunk_i = 1
    /\ symbols = <<>>
    /\ imp_out = <<>>
    /\ imp_pc = "walk"
    /\ IdlePk3
    /\ IdleSummary
    /\ IdleRes
    /\ IdlePe
    /\ IdleCursor
    /\ IdleSections
    /\ IdleExports

ImportsFrame == UNCHANGED <<thunks, cur_vars, sec_vars, exp_vars, pk3_vars, sum_vars, res_vars, pe_vars>>

\* "each thunk is either an ordinal (high bit set) or an RVA to a (hint,
\* name) pair": one more symbol.
WalkThunk ==
    /\ imp_pc = "walk"
    /\ thunk_i <= Len(thunks)
    /\ thunks[thunk_i].kind \in {"ordinal", "name"}
    /\ symbols' = Append(symbols, Symbol(thunks[thunk_i]))
    /\ thunk_i' = thunk_i + 1
    /\ UNCHANGED <<imp_out, imp_pc>>
    /\ ImportsFrame

\* "Stops at the first zero thunk."
StopAtZeroThunk ==
    /\ imp_pc = "walk"
    /\ thunk_i <= Len(thunks)
    /\ thunks[thunk_i].kind = "zero"
    /\ imp_pc' = "walked"
    /\ UNCHANGED <<thunk_i, symbols, imp_out>>
    /\ ImportsFrame

\* "a corrupt thunk array truncates the entry list": the read of the next
\* thunk is OutOfBounds, or its name RVA is an UnmappedRva.
TruncateAtCorruptThunk ==
    /\ imp_pc = "walk"
    /\ \/ thunk_i > Len(thunks)
       \/ thunk_i <= Len(thunks) /\ thunks[thunk_i].kind = "badrva"
    /\ imp_pc' = "walked"
    /\ UNCHANGED <<thunk_i, symbols, imp_out>>
    /\ ImportsFrame

\* A mutant of Funcs: imports by ordinal are left out.
FuncsNamedOnly(imports) == SelectSeq(imports, LAMBDA imp : imp.named)

\* line 98: funcs = [imp for imp in entry.imports]
Funcs(imports) == imports

\* line 101: the sort key (x.name or b'').decode('ascii', errors='replace')
ImportKey(imp) == IF imp.named THEN imp.name ELSE <<>>

RECURSIVE InsertByKey(_, _)
\* imp put after every element whose key is not greater than its own.
InsertByKey(sorted, imp) ==
    IF sorted = <<>> THEN <<imp>>
    ELSE IF StrLess(ImportKey(imp), ImportKey(Head(sorted)))
         THEN <<imp>> \o sorted
         ELSE <<Head(sorted)>> \o InsertByKey(Tail(sorted), imp)

RECURSIVE SortedByKey(_)
\* line 101: sorted(funcs, key=...), which is stable.
SortedByKey(funcs) ==
    IF funcs = <<>> THEN <<>>
    ELSE InsertByKey(SortedByKey(SubSeq(funcs, 1, Len(funcs) - 1)), funcs[Len(funcs)])

\* lines 102-106: the name, or Ordinal <n>.
ImportLine(imp) == IF imp.named THEN imp.name ELSE <<"Ordinal ", imp.ordinal>>

\* lines 98-106: the module's header line with its count, then one line
\* per function.
PrintModule ==
    /\ imp_pc = "walked"
    /\ LET funcs == Funcs(symbols)
           lines == SortedByKey(funcs)
       IN imp_out' = <<<<"functions", Len(funcs)>>>>
                       \o [k \in 1..Len(lines) |-> ImportLine(lines[k])]
    /\ imp_pc' = "printed"
    /\ UNCHANGED <<thunk_i, symbols>>
    /\ ImportsFrame

NextImports ==
    \/ WalkThunk
    \/ StopAtZeroThunk
    \/ TruncateAtCorruptThunk
    \/ PrintModule

SpecImports == InitImports /\ [][NextImports]_vars

\* ---- C4 ----------------------------------------------------------------
\* The thunks before the first zero thunk, the first thunk whose name RVA
\* is unmappable, and the end of the image, whichever comes first.
WalkedThunks ==
    LET stops == {k \in 1..Len(thunks) : thunks[k].kind \in {"zero", "badrva"}}
                   \cup {Len(thunks) + 1}
    IN (CHOOSE k \in stops : \A j \in stops : k <= j) - 1

ClaimedLine(t) == IF t.kind = "name" THEN t.name ELSE <<"Ordinal ", t.ordinal>>

\* C4: walking a descriptor's thunk array ends at the first zero thunk and
\* yields exactly the thunks that precede it; an all-zero array yields no
\* symbol; a corrupt array (one that runs off the image, or whose name RVA
\* is unmappable) cuts the module's symbol list there.  Stated of the walk
\* once it has ended, and of the module's printed count and lines.
C4_ThunkWalkStopsAtZero ==
    imp_pc \in {"walked", "printed"} =>
        /\ Len(symbols) = WalkedThunks
        /\ \A k \in 1..Len(symbols) :
              /\ symbols[k].named = (thunks[k].kind = "name")
              /\ symbols[k].named => symbols[k].name = thunks[k].name
              /\ ~symbols[k].named => symbols[k].ordinal = thunks[k].ordinal
        /\ (\A k \in 1..Len(thunks) : thunks[k].kind = "zero") => symbols = <<>>
        /\ imp_pc = "printed" =>
              /\ imp_out[1] = <<"functions", WalkedThunks>>
              /\ Len(imp_out) = 1 + WalkedThunks
              /\ \A t \in ThunkSet :
                    Cardinality({n \in 2..Len(imp_out) : imp_out[n] = ClaimedLine(t)})
                      = Cardinality({k \in 1..WalkedThunks : ClaimedLine(thunks[k]) = ClaimedLine(t)})

\* C4 witness: an import by name and one by ordinal, then a zero thunk with
\* a further thunk behind it; both symbols and nothing more were printed.
C4_Witness ==
    /\ imp_pc = "printed"
    /\ Len(thunks) = 3
    /\ thunks[1].kind = "name"
    /\ thunks[2].kind = "zero"
    /\ thunks[3].kind = "ordinal"
    /\ imp_out = <<<<"functions", 1>>, thunks[1].name>>

\* ------------------------------------------------------------------------
\* ExportTableParser (specification section 4.5); pe_analyze.py lines 111-120
\* ------------------------------------------------------------------------
\* Bound on the number of function addresses of an export directory.
MaxFuncs == 2

OrdinalBases == {0, 1, 5}
FuncRvas == {4096, 8192}
ExportNames == {<<"a">>, <<"b">>}

Injective(f) == \A x, y \in DOMAIN f : f[x] = f[y] => x = y

\* The export directory: the function-address array, the name-pointer array
\* and the name-ordinal array, which gives for each name the index of its
\* function in the address array.  Every name belongs to another function.
ExportDirs ==
    UNION {
      { [base |-> b, addrs |-> a, names |-> nm, name_ords |-> no] :
          b \in OrdinalBases,
          nm \in {x \in SeqsUpTo(ExportNames, Len(a)) : Injective(x)},
          no \in {x \in SeqsUpTo(0..(Len(a) - 1), Len(a)) : Injective(x)} }
      : a \in SeqsUpTo(FuncRvas, MaxFuncs) }

InitExports ==
    /\ exp_dir \in {d \in ExportDirs : Len(d.names) = Len(d.name_ords)}
    /\ exp_symbols = <<>>
    /\ exp_i = 1
    /\ exp_out = <<>>
    /\ exp_pc = "parse"
    /\ IdlePk3
    /\ IdleSummary
    /\ IdleRes
    /\ IdlePe
    /\ IdleCursor
    /\ IdleSections
    /\ IdleImports

ExportsFrame == UNCHANGED <<exp_dir, cur_vars, sec_vars, imp_vars, pk3_vars, sum_vars, res_vars, pe_vars>>

\* The name of the function at index i of the address array, if it has one.
NameOfIndex(dir, i) ==
    LET js == {j \in 1..Len(dir.names) : dir.name_ords[j] = i}
    IN IF js = {} THEN [named |-> FALSE, name |-> <<>>]
       ELSE [named |-> TRUE, name |-> dir.names[CHOOSE j \in js : TRUE]]

\* "function-address RVAs (by ordinal, contiguous from OrdinalBase) ... and
\* a name-ordinal mapping used to associate names back to the correct
\* ordinal"
ParseExports(dir) ==
    [k \in 1..Len(dir.addrs) |->
        [ordinal |-> dir.base + (k - 1),
         address |-> dir.addrs[k],
         named |-> NameOfIndex(dir, k - 1).named,
         name |-> NameOfIndex(dir, k - 1).name]]

ParseExportDirectory ==
    /\ exp_pc = "parse"
    /\ exp_symbols' = ParseExports(exp_dir)
    /\ exp_pc' = "print"
    /\ UNCHANGED <<exp_i, exp_out>>
    /\ ExportsFrame

\* A mutant of ExportLine: the symbol is numbered by its index in the
\* address array instead of its ordinal.
ExportLineByIndex(exp) ==
    [ordinal |-> exp.ordinal - exp_dir.base, address |-> exp.address,
     name |-> IF exp.named THEN exp.name
              ELSE <<"Ordinal_", exp.ordinal - exp_dir.base>>]

\* lines 117-118: the symbol's ordinal, its address, and its name or, when
\* it has none, Ordinal_<ordinal>.
ExportLine(exp) ==
    [ordinal |-> exp.ordinal, address |-> exp.address,
     name |-> IF exp.named THEN exp.name ELSE <<"Ordinal_", exp.ordinal>>]

\* lines 116-118: one iteration of the loop over the symbols.
PrintExport ==
    /\ exp_pc = "print"
    /\ exp_i <= Len(exp_symbols)
    /\ exp_out' = Append(exp_out, ExportLine(exp_symbols[exp_i]))
    /\ exp_i' = exp_i + 1
    /\ UNCHANGED <<exp_symbols, exp_pc>>
    /\ ExportsFrame

\* line 116: the loop is exhausted.
ExportsPrinted ==
    /\ exp_pc = "print"
    /\ exp_i > Len(exp_symbols)
    /\ exp_pc' = "done"
    /\ UNCHANGED <<exp_symbols, exp_i, exp_out>>
    /\ ExportsFrame

NextExports == ParseExportDirectory \/ PrintExport \/ ExportsPrinted

SpecExports == InitExports /\ [][NextExports]_vars

\* ---- C6 ----------------------------------------------------------------
\* The reported entry carrying ordinal o is unique.
OneLineWithOrdinal(o) == Cardinality({n \in 1..Len(exp_out) : exp_out[n].ordinal = o}) = 1

LineWithOrdinal(o) == exp_out[CHOOSE n \in 1..Len(exp_out) : exp_out[n].ordinal = o]

\* The ordinals and names the claim asks for; unnamed(o) is what an entry
\* without a name must show.
ExportsAsClaimed(unnamed(_)) ==
    exp_pc = "done" =>
        LET n == Len(exp_dir.addrs)
            b == exp_dir.base
        IN /\ Len(exp_out) = n
           /\ \A i \in 0..(n - 1) :
                 /\ OneLineWithOrdinal(b + i)
                 /\ LineWithOrdinal(b + i).address = exp_dir.addrs[i + 1]
                 /\ \A j \in 1..Len(exp_dir.names) :
                       exp_dir.name_ords[j] = i
                           => LineWithOrdinal(b + i).name = exp_dir.names[j]
                 /\ (\A j \in 1..Len(exp_dir.names) : exp_dir.name_ords[j] # i)
                       => LineWithOrdinal(b + i).name = unnamed(b + i)

NoNameAtAll(o) == <<>>

\* C6 as claimed: for an export directory with OrdinalBase b and n function
\* addresses the reported entries carry the ordinals b .. b+n-1, each name
\* of the name-pointer array is attached to the entry whose ordinal is b
\* plus the index the name-ordinal array gives at the same position, and
\* entries without a name are reported with no name.
C6_UnnamedExportsHaveNoName == ExportsAsClaimed(NoNameAtAll)

OrdinalPlaceholder(o) == <<"Ordinal_", o>>

\* C6 as amended: the same ordinals and the same attachment of names, and
\* an entry without a name is reported under the placeholder
\* Ordinal_<ordinal>.
C6_ExportOrdinalsFromBase == ExportsAsClaimed(OrdinalPlaceholder)

\* C6 witness: OrdinalBase 5 and two functions, of which only the second
\* has a name; ordinals 5 and 6 were reported.
C6_Witness ==
    /\ exp_pc = "done"
    /\ exp_dir.base = 5
    /\ Len(exp_dir.addrs) = 2
    /\ exp_dir.names = <<<<"b">>>>
    /\ exp_dir.name_ords = <<1>>
    /\ [n \in 1..2 |-> exp_out[n].ordinal] = <<5, 6>>
    /\ exp_out[1].name = <<"Ordinal_", 5>>
    /\ exp_out[2].name = <<"b">>
====
